---- MODULE Spec2Model ----
(***************************************************************************)
(* Model of the table-tennis playthrough engine (src/src/tt.rs) and of its *)
(* random driver (src/src/main.rs).                                        *)
(*                                                                         *)
(* A TtMatch is a record [left, right].  A TtPlaythrough is the triple of  *)
(* variables matches, players, max_repeting_games_per_player.  The public  *)
(* methods are actions; the private helpers are operators over an explicit *)
(* (matches, players, window) so that they can be evaluated on any value.  *)
(* BTreeMap<usize, usize> is a function whose DOMAIN is the key set.       *)
(***************************************************************************)
EXTENDS Integers, Sequences, FiniteSets, TLC

VARIABLES matches, players, max_repeting_games_per_player,
          op, arg, allow, ret, view, error

vars == <<matches, players, max_repeting_games_per_player,
          op, arg, allow, ret, view, error>>

\* ---------------------------------------------------------------- bounds
MaxPlayer == 3
MaxHistory == 3
MaxWindow == 2
MaxMainHistory == 5

PlayerIds == 0..MaxPlayer
Proposals == PlayerIds \X PlayerIds
Windows == 1..MaxWindow

\* ------------------------------------------------------------- constants
PLAYERS == <<0, 1, 2>>
MATCHES == {<<0, 1>>, <<0, 2>>, <<1, 0>>, <<1, 2>>, <<2, 0>>, <<2, 1>>}
MAIN_WINDOW == 2

\* --------------------------------------------------------------- TtMatch
TtMatch_new(left, right) == [left |-> left, right |-> right]

check_same_players(m, p) ==
    LET players_in_match == {m.left, m.right}
    IN  p[1] \in players_in_match /\ p[2] \in players_in_match

\* --------------------------------------------------------- Vec utilities
Reverse(s) == [i \in 1..Len(s) |-> s[Len(s) + 1 - i]]

Take(s, n) == IF n >= Len(s) THEN s ELSE SubSeq(s, 1, n)

Range(s) == {s[i] : i \in 1..Len(s)}

Last(s) == s[Len(s)]

\* --------------------------------------------------------- TtPlaythrough
\* the clone returned without the reverse() call
get_matches_reversed_NotReversed(ms) == ms

get_matches_reversed(ms) == Reverse(ms)

\* the window left most-recent-first, without the final reverse()
get_last_n_matches_NotRestored(ms, n) == Take(Reverse(ms), n)

get_last_n_matches(ms, n) == Reverse(Take(Reverse(ms), n))

get_empty_player_map(ps) == [p \in Range(ps) |-> 0]

\* map.entry(k).and_modify(|p| *p += 1).or_insert(0)
EntryModifyOrInsert(map, k) ==
    IF k \in DOMAIN map
    THEN [map EXCEPT ![k] = @ + 1]
    ELSE [x \in DOMAIN map \cup {k} |-> IF x = k THEN 0 ELSE map[x]]

RECURSIVE CountLoop(_, _)
CountLoop(ms, map) ==
    IF ms = <<>> THEN map
    ELSE CountLoop(Tail(ms),
                   EntryModifyOrInsert(EntryModifyOrInsert(map, Head(ms).left),
                                       Head(ms).right))

get_last_n_games_counts(ms, ps, n) ==
    CountLoop(get_last_n_matches(ms, n), get_empty_player_map(ps))

\* players_map.get(&k).unwrap_or(&0)
GetOrZero(map, k) == IF k \in DOMAIN map THEN map[k] ELSE 0

\* Rule 1 comparing the seats as well as the players
check_same_players_as_before_Ordered(ms, p) ==
    IF ms # <<>>
    THEN Last(ms).left = p[1] /\ Last(ms).right = p[2]
    ELSE FALSE

\* Rule 1
check_same_players_as_before(ms, p) ==
    IF ms # <<>> THEN check_same_players(ms[Len(ms)], p) ELSE FALSE

\* Rule 2 one match too strict
check_not_played_twice_before_OffByOne(ms, ps, n, p) ==
    LET players_map == get_last_n_games_counts(ms, ps, n)
    IN  IF GetOrZero(players_map, p[1]) >= n - 1 THEN FALSE
        ELSE IF GetOrZero(players_map, p[2]) >= n - 1 THEN FALSE
        ELSE TRUE

\* Rule 2
check_not_played_twice_before(ms, ps, n, p) ==
    LET players_map == get_last_n_games_counts(ms, ps, n)
    IN  IF GetOrZero(players_map, p[1]) >= n THEN FALSE
        ELSE IF GetOrZero(players_map, p[2]) >= n THEN FALSE
        ELSE TRUE

\* Rule 3 that forgets the right seat
check_not_on_same_side_as_one_game_before_LeftOnly(ms, p) ==
    IF ms # <<>>
    THEN IF ms[Len(ms)].left = p[1] THEN FALSE ELSE TRUE
    ELSE TRUE

\* Rule 3
check_not_on_same_side_as_one_game_before(ms, p) ==
    IF ms # <<>>
    THEN IF ms[Len(ms)].left = p[1] THEN FALSE
         ELSE IF ms[Len(ms)].right = p[2] THEN FALSE
         ELSE TRUE
    ELSE TRUE

\* Iterator::find: the first element satisfying the predicate, if any
FindSamePlayers(s, p) ==
    LET hits == {i \in 1..Len(s) : check_same_players(s[i], p)}
    IN  IF hits = {} THEN <<>>
        ELSE <<s[CHOOSE i \in hits : \A j \in hits : i <= j]>>

\* Rule 4 looking at the last match only, as Rules 1 and 3 do
check_not_on_same_sides_facing_the_same_opponent_again_LastOnly(ms, p) ==
    LET last_match == FindSamePlayers(Take(get_matches_reversed(ms), 1), p)
    IN  IF last_match # <<>>
        THEN IF last_match[1].left = p[1] THEN FALSE
             ELSE IF last_match[1].right = p[2] THEN FALSE
             ELSE TRUE
        ELSE TRUE

\* Rule 4
check_not_on_same_sides_facing_the_same_opponent_again(ms, p) ==
    LET last_match == FindSamePlayers(get_matches_reversed(ms), p)
    IN  IF last_match # <<>>
        THEN IF last_match[1].left = p[1] THEN FALSE
             ELSE IF last_match[1].right = p[2] THEN FALSE
             ELSE TRUE
        ELSE TRUE

check_match_possible(ms, ps, n, p, allow_rule_4) ==
    /\ ~check_same_players_as_before(ms, p)
    /\ check_not_played_twice_before(ms, ps, n, p)
    /\ check_not_on_same_side_as_one_game_before(ms, p)
    /\ (allow_rule_4 \/ check_not_on_same_sides_facing_the_same_opponent_again(ms, p))

\* append_game with the seats swapped
append_game_Swapped(ms, left, right) == Append(ms, TtMatch_new(right, left))

append_game(ms, left, right) == Append(ms, TtMatch_new(left, right))

\* ---------------------------------------------------------------- state
TtPlaythrough_new(ps, n) ==
    /\ max_repeting_games_per_player = n
    /\ players = ps
    /\ matches = <<>>

Init ==
    /\ \E n \in Windows : TtPlaythrough_new(PLAYERS, n)
    /\ op = "new"
    /\ arg = <<0, 0>>
    /\ allow = FALSE
    /\ ret = FALSE
    /\ view = <<>>
    /\ error = "none"

\* -------------------------------------------------------------- actions
play_match_if_possible(p, allow_rule_4) ==
    /\ matches' = IF check_match_possible(matches, players,
                                          max_repeting_games_per_player,
                                          p, allow_rule_4)
                  THEN append_game(matches, p[1], p[2])
                  ELSE matches
    /\ op' = "play"
    /\ arg' = p
    /\ allow' = allow_rule_4
    /\ view' = <<>>
    /\ error' = "none"
    /\ ret' = FALSE
    /\ UNCHANGED <<players, max_repeting_games_per_player>>

\* a check that also records the match it found possible
CheckMatchPossible_Recording(p, allow_rule_4) ==
    /\ ret' = check_match_possible(matches, players,
                                   max_repeting_games_per_player,
                                   p, allow_rule_4)
    /\ matches' = IF ret' THEN append_game(matches, p[1], p[2]) ELSE matches
    /\ op' = "check"
    /\ arg' = p
    /\ allow' = allow_rule_4
    /\ view' = <<>>
    /\ error' = "none"
    /\ UNCHANGED <<players, max_repeting_games_per_player>>

CheckMatchPossible(p, allow_rule_4) ==
    /\ ret' = check_match_possible(matches, players,
                                   max_repeting_games_per_player,
                                   p, allow_rule_4)
    /\ op' = "check"
    /\ arg' = p
    /\ allow' = allow_rule_4
    /\ view' = <<>>
    /\ error' = "none"
    /\ UNCHANGED <<matches, players, max_repeting_games_per_player>>

\* a clear that undoes the last match only
clear_match_history_PopLast ==
    /\ matches' = IF matches = <<>> THEN <<>> ELSE SubSeq(matches, 1, Len(matches) - 1)
    /\ op' = "clear"
    /\ arg' = <<0, 0>>
    /\ allow' = FALSE
    /\ view' = <<>>
    /\ error' = "none"
    /\ ret' = FALSE
    /\ UNCHANGED <<players, max_repeting_games_per_player>>

clear_match_history ==
    /\ matches' = <<>>
    /\ op' = "clear"
    /\ arg' = <<0, 0>>
    /\ allow' = FALSE
    /\ view' = <<>>
    /\ error' = "none"
    /\ ret' = FALSE
    /\ UNCHANGED <<players, max_repeting_games_per_player>>

Play ==
    /\ Len(matches) < MaxHistory
    /\ \E p \in Proposals, a \in BOOLEAN : play_match_if_possible(p, a)

Check == \E p \in Proposals, a \in BOOLEAN : CheckMatchPossible(p, a)

Next == Play \/ Check \/ clear_match_history

Spec == Init /\ [][Next]_vars

\* The unit tests build a History directly with append_game, so the rule
\* predicates are also exercised from every History of valid records over
\* the roster, not only from those play_match_if_possible can build.
RECURSIVE SeqsUpTo(_, _)
SeqsUpTo(S, n) ==
    IF n = 0 THEN {<<>>}
    ELSE LET shorter == SeqsUpTo(S, n - 1)
         IN  shorter \cup {append_game(h, m[1], m[2]) : h \in shorter, m \in S}

AnyInit ==
    /\ max_repeting_games_per_player \in Windows
    /\ players = PLAYERS
    /\ matches \in SeqsUpTo(MATCHES, MaxHistory)
    /\ op = "new"
    /\ arg = <<0, 0>>
    /\ allow = FALSE
    /\ ret = FALSE
    /\ view = <<>>
    /\ error = "none"

\* test_get_last_n_games and test_get_matches_reversed call the two views
\* of History directly; view holds what the call returned.
GetLastNMatches ==
    /\ view' = get_last_n_matches(matches, max_repeting_games_per_player)
    /\ op' = "last_n"
    /\ arg' = <<0, 0>>
    /\ allow' = FALSE
    /\ ret' = FALSE
    /\ error' = "none"
    /\ UNCHANGED <<matches, players, max_repeting_games_per_player>>

GetMatchesReversed ==
    /\ view' = get_matches_reversed(matches)
    /\ op' = "reversed"
    /\ arg' = <<0, 0>>
    /\ allow' = FALSE
    /\ ret' = FALSE
    /\ error' = "none"
    /\ UNCHANGED <<matches, players, max_repeting_games_per_player>>

AnyNext == Play \/ Check \/ GetLastNMatches \/ GetMatchesReversed

SpecAny == AnyInit /\ [][AnyNext]_vars

\* The driver of main.rs: roster PLAYERS, window 2, proposals drawn from
\* MATCHES, Rule 4 enabled on every call.
MainInit ==
    /\ TtPlaythrough_new(PLAYERS, MAIN_WINDOW)
    /\ op = "new"
    /\ arg = <<0, 0>>
    /\ allow = FALSE
    /\ ret = FALSE
    /\ view = <<>>
    /\ error = "none"

MainPlay ==
    /\ Len(matches) < MaxMainHistory
    /\ \E game \in MATCHES : play_match_if_possible(game, FALSE)

MainCheck == \E game \in MATCHES : CheckMatchPossible(game, FALSE)

MainNext == MainPlay \/ MainCheck

SpecMain == MainInit /\ [][MainNext]_vars

\* The same driver with Rule 4 disabled on every call, as in
\* test_check_matches_possible_without_rule_4.
MainPlayWithoutRule4 ==
    /\ Len(matches) < MaxMainHistory
    /\ \E game \in MATCHES : play_match_if_possible(game, TRUE)

MainCheckWithoutRule4 == \E game \in MATCHES : CheckMatchPossible(game, TRUE)

MainNextWithoutRule4 == MainPlayWithoutRule4 \/ MainCheckWithoutRule4

SpecMainWithoutRule4 == MainInit /\ [][MainNextWithoutRule4]_vars

\* Any caller that keeps Rule 4 enabled: every proposal, allow_rule_4 = false.
PlayWithRule4 ==
    /\ Len(matches) < MaxHistory
    /\ \E p \in Proposals : play_match_if_possible(p, FALSE)

CheckWithRule4 == \E p \in Proposals : CheckMatchPossible(p, FALSE)

NextWithRule4 == PlayWithRule4 \/ CheckWithRule4 \/ clear_match_history

SpecWithRule4 == Init /\ [][NextWithRule4]_vars

\* Automatic next-match selection (specification section 4.4); this method
\* is not part of src/src/tt.rs.
Rosters == {<<0, 1>>, <<0, 1, 2>>}

\* step 3 with the strict bound of Rule 2
EligiblePlayers_Strict(ps, counts, n) ==
    LET UnderCap(q) == counts[q] < n
    IN  SelectSeq(ps, UnderCap)

\* step 3: roster players whose windowed count is <= fatigue_window
EligiblePlayers(ps, counts, n) ==
    LET AtMostCap(q) == counts[q] <= n
    IN  SelectSeq(ps, AtMostCap)

\* step 6: stable sort of the roster by ascending count; position k holds
\* the player with exactly k - 1 players before it
SortedByCount(ps, counts) ==
    LET Before(i, j) == counts[ps[i]] < counts[ps[j]]
                            \/ (counts[ps[i]] = counts[ps[j]] /\ i < j)
        Rank(i) == Cardinality({j \in 1..Len(ps) : Before(j, i)}) + 1
    IN  [k \in 1..Len(ps) |-> ps[CHOOSE i \in 1..Len(ps) : Rank(i) = k]]

\* steps 5 and 6: the ordered candidate pair
Candidates(ps, counts, n, coin) ==
    LET eligible == EligiblePlayers(ps, counts, n)
        sorted == SortedByCount(ps, counts)
    IN  IF Len(eligible) = 2 THEN eligible
        ELSE IF coin THEN <<sorted[1], sorted[2]>>
        ELSE <<sorted[2], sorted[1]>>

\* step 7: reconcile with the previous match
Reconcile(prev, cand) ==
    IF prev.left = cand[1] THEN <<cand[2], cand[1]>> ELSE cand

select_next(coin) ==
    LET counts == get_last_n_games_counts(matches, players,
                                          max_repeting_games_per_player)
        eligible == EligiblePlayers(players, counts,
                                    max_repeting_games_per_player)
        cand == Candidates(players, counts, max_repeting_games_per_player, coin)
        pair == Reconcile(Last(matches), cand)
    IN  /\ op' = "select"
        /\ arg' = <<0, 0>>
        /\ allow' = FALSE
        /\ ret' = FALSE
        /\ view' = <<>>
        /\ UNCHANGED <<players, max_repeting_games_per_player>>
        /\ IF matches = <<>>
           THEN /\ matches' = append_game(matches, players[1], players[2])
                /\ error' = "none"
           ELSE IF Len(eligible) < 2
           THEN /\ matches' = matches
                /\ error' = "NoEligiblePlayers"
           ELSE IF {cand[1], cand[2]} = {Last(matches).left, Last(matches).right}
                   \/ cand[1] = cand[2]
           THEN /\ matches' = matches
                /\ error' = "InvalidMatch"
           ELSE /\ matches' = append_game(matches, pair[1], pair[2])
                /\ error' = "none"

SelectInit ==
    /\ \E ps \in Rosters, n \in Windows : TtPlaythrough_new(ps, n)
    /\ op = "new"
    /\ arg = <<0, 0>>
    /\ allow = FALSE
    /\ ret = FALSE
    /\ view = <<>>
    /\ error = "none"

SelectNext ==
    /\ Len(matches) < MaxHistory
    /\ \E coin \in BOOLEAN : select_next(coin)

SelectPlay ==
    /\ Len(matches) < MaxHistory
    /\ \E p \in Range(players) \X Range(players), a \in BOOLEAN :
           p[1] # p[2] /\ play_match_if_possible(p, a)

SelectSpecNext == SelectNext \/ SelectPlay

SpecSelect == SelectInit /\ [][SelectSpecNext]_vars

\* ------------------------------------------------------ shared notions
Window == max_repeting_games_per_player

UnorderedPair(m) == {m.left, m.right}

\* ------------------------------------------------------------------ C1
\* C1: starting from an empty History, every two consecutive History
\* records prev, next have prev.left # next.left and
\* prev.right # next.right, whatever was proposed and whatever
\* allow_rule_4 was.
C1_SideAlternation ==
    \A i \in 1..(Len(matches) - 1) :
        /\ matches[i].left # matches[i + 1].left
        /\ matches[i].right # matches[i + 1].right

\* a second record was appended by play_match_if_possible
C1_Witness ==
    /\ op = "play"
    /\ Len(matches) >= 2
    /\ Last(matches) = TtMatch_new(arg[1], arg[2])

\* ------------------------------------------------------------------ C2
\* C2: when the last History record is (a,b), check_match_possible rejects
\* both (a,b) and (b,a) for every fatigue window and both values of
\* allow_rule_4; and a record appended by play_match_if_possible never has
\* the unordered pair of the record before it.
C2_Rule1State ==
    matches # <<>> =>
        LET a == Last(matches).left
            b == Last(matches).right
        IN  \A n \in 0..(MaxWindow + 1), allow_rule_4 \in BOOLEAN :
                /\ ~check_match_possible(matches, players, n, <<a, b>>, allow_rule_4)
                /\ ~check_match_possible(matches, players, n, <<b, a>>, allow_rule_4)

C2_Rule1Step ==
    (op' = "play" /\ matches' # matches /\ matches # <<>>) =>
        UnorderedPair(Last(matches')) # UnorderedPair(Last(matches))

C2_Rule1 == []C2_Rule1State /\ [][C2_Rule1Step]_vars

\* the swapped pair was checked with Rule 4 off, Rules 2 and 3 passed, and
\* the verdict was still "not possible"
C2_Witness ==
    /\ op = "check"
    /\ matches # <<>>
    /\ arg = <<Last(matches).right, Last(matches).left>>
    /\ arg[1] # arg[2]
    /\ allow = TRUE
    /\ check_not_played_twice_before(matches, players, Window, arg)
    /\ check_not_on_same_side_as_one_game_before(matches, arg)
    /\ ret = FALSE

\* ------------------------------------------------------------------ C3
\* The four rules as the specification words them, on unordered pairs and
\* per-record appearance counts.
ValidHistory(ms, ps) ==
    \A i \in 1..Len(ms) :
        /\ ms[i].left # ms[i].right
        /\ {ms[i].left, ms[i].right} \subseteq Range(ps)

WindowIndices(ms, n) == {i \in 1..Len(ms) : i > Len(ms) - n}

Appearances(ms, n, q) ==
    Cardinality({i \in WindowIndices(ms, n) : q \in UnorderedPair(ms[i])})

Rule1(ms, p) == ms = <<>> \/ UnorderedPair(Last(ms)) # {p[1], p[2]}

Rule2(ms, n, p) == Appearances(ms, n, p[1]) < n /\ Appearances(ms, n, p[2]) < n

Rule3(ms, p) == ms = <<>> \/ ~(Last(ms).left = p[1] \/ Last(ms).right = p[2])

Meetings(ms, p) == {i \in 1..Len(ms) : UnorderedPair(ms[i]) = {p[1], p[2]}}

LatestMeeting(ms, p) == CHOOSE i \in Meetings(ms, p) : \A j \in Meetings(ms, p) : j <= i

Rule4(ms, p) ==
    Meetings(ms, p) = {} \/
        ~(ms[LatestMeeting(ms, p)].left = p[1] \/ ms[LatestMeeting(ms, p)].right = p[2])

Legal(ms, n, p, allow_rule_4) ==
    Rule1(ms, p) /\ Rule2(ms, n, p) /\ Rule3(ms, p) /\ (allow_rule_4 \/ Rule4(ms, p))

ScenarioA == <<TtMatch_new(2, 1)>>
ScenarioB == <<TtMatch_new(2, 1), TtMatch_new(0, 2)>>
ScenarioC == <<TtMatch_new(2, 1), TtMatch_new(0, 2), TtMatch_new(1, 0)>>

Verdict(ms, p) == check_match_possible(ms, players, Window, p, FALSE)

ScenarioVerdicts ==
    Window = MAIN_WINDOW =>
        /\ matches = <<>> => \A p \in MATCHES : Verdict(matches, p)
        /\ matches = ScenarioA =>
              /\ ~Verdict(matches, <<0, 1>>) /\ Verdict(matches, <<0, 2>>)
              /\ Verdict(matches, <<1, 0>>) /\ ~Verdict(matches, <<2, 0>>)
              /\ ~Verdict(matches, <<1, 2>>) /\ ~Verdict(matches, <<2, 1>>)
        /\ matches = ScenarioB =>
              /\ ~Verdict(matches, <<2, 1>>) /\ Verdict(matches, <<1, 0>>)

\* C3: on every History of valid records over the roster and for every
\* proposal, check_match_possible equals Rule1 /\ Rule2 /\ Rule3 /\
\* (allow_rule_4 \/ Rule4); every proposal is legal on the empty History;
\* the verdicts of Scenarios A and B hold.
C3_Conjunction ==
    /\ ValidHistory(matches, players) =>
          \A p \in Proposals, allow_rule_4 \in BOOLEAN :
              check_match_possible(matches, players, Window, p, allow_rule_4)
                  = Legal(matches, Window, p, allow_rule_4)
    /\ matches = <<>> =>
          \A p \in Proposals, allow_rule_4 \in BOOLEAN :
              check_match_possible(matches, players, Window, p, allow_rule_4)
    /\ ScenarioVerdicts

\* what does hold: the same statement over proposals of two distinct players
C3_ConjunctionDistinct ==
    /\ ValidHistory(matches, players) =>
          \A p \in Proposals, allow_rule_4 \in BOOLEAN :
              p[1] # p[2] =>
                  check_match_possible(matches, players, Window, p, allow_rule_4)
                      = Legal(matches, Window, p, allow_rule_4)
    /\ matches = <<>> =>
          \A p \in Proposals, allow_rule_4 \in BOOLEAN :
              check_match_possible(matches, players, Window, p, allow_rule_4)
    /\ ScenarioVerdicts

\* the History of the failing case is reachable by play_match_if_possible
\* alone: a player who met someone earlier and sits out the last match
\* proposes to play against themself
C3_SelfMatchState ==
    /\ matches = <<TtMatch_new(0, 1), TtMatch_new(1, 2)>>
    /\ Window = MAIN_WINDOW
    /\ Legal(matches, Window, <<0, 0>>, FALSE)
    /\ ~check_match_possible(matches, players, Window, <<0, 0>>, FALSE)

\* ------------------------------------------------------------------ C4
\* C4 as stated: with roster [0,1,2], window 2 and Rule 4 enabled, after
\* (2,1), (0,2), (1,0) the proposal (2,1) is legal.
C4_ScenarioC_Legal ==
    (matches = ScenarioC /\ players = PLAYERS /\ Window = MAIN_WINDOW) =>
        check_match_possible(matches, players, Window, <<2, 1>>, FALSE)

\* C4 amended: in that state check_match_possible((2,1), allow_rule_4)
\* returns allow_rule_4: the proposal is rejected while Rule 4 is
\* enabled (the first record (2,1) has the same seats) and is accepted only
\* when Rule 4 is switched off.
C4_ScenarioC_Verdict ==
    (/\ matches = ScenarioC /\ players = PLAYERS /\ Window = MAIN_WINDOW
     /\ op = "check" /\ arg = <<2, 1>>) =>
        ret = allow

C4_Witness ==
    /\ matches = ScenarioC /\ players = PLAYERS /\ Window = MAIN_WINDOW
    /\ op = "check" /\ arg = <<2, 1>> /\ allow = FALSE /\ ret = FALSE

\* ------------------------------------------------------------------ C5
\* C5: the Rule 4 predicate on (l,r) is false exactly when the latest
\* History record whose unordered pair equals {l,r} has left = l or
\* right = r; it passes when no record has that unordered pair.
C5_Rule4LatestMeeting ==
    \A p \in Proposals :
        check_not_on_same_sides_facing_the_same_opponent_again(matches, p)
            = Rule4(matches, p)

\* what does hold: the same statement over proposals of two distinct players
C5_Rule4LatestMeetingDistinct ==
    \A p \in Proposals :
        p[1] # p[2] =>
            check_not_on_same_sides_facing_the_same_opponent_again(matches, p)
                = Rule4(matches, p)

\* ------------------------------------------------------------------ C6
\* C6: after any sequence of play_match_if_possible calls, the windowed
\* count get_last_n_games_counts holds for a player never exceeds the
\* fatigue window.
C6_FatigueBound ==
    LET counts == get_last_n_games_counts(matches, players, Window)
    IN  \A q \in DOMAIN counts : counts[q] <= Window

\* what does hold: the bound while every record has two distinct players
C6_FatigueBoundDistinct ==
    (\A i \in 1..Len(matches) : matches[i].left # matches[i].right) =>
        C6_FatigueBound

\* ------------------------------------------------------------------ C7
\* C7: every History record has left # right; play_match_if_possible never
\* appends a proposal with left = right.
C7_LeftNotRight ==
    \A i \in 1..Len(matches) : matches[i].left # matches[i].right

\* ------------------------------------------------------------------ C8
\* C8: a play_match_if_possible step appends exactly the record
\* (left,right) at the end of History when check_match_possible holds on
\* the History before the step and leaves History as it was otherwise;
\* earlier records, roster and fatigue window never change.
C8_PlayStep ==
    op' = "play" =>
        /\ IF check_match_possible(matches, players, Window, arg', allow')
           THEN /\ Len(matches') = Len(matches) + 1
                /\ Last(matches') = [left |-> arg'[1], right |-> arg'[2]]
           ELSE matches' = matches
        /\ \A i \in 1..Len(matches) : i <= Len(matches') /\ matches'[i] = matches[i]
        /\ players' = players
        /\ max_repeting_games_per_player' = max_repeting_games_per_player

C8_CheckThenAppend == [][C8_PlayStep]_vars

\* an accepted proposal sits at the end of a History that had records
\* before it
C8_Witness ==
    /\ op = "play"
    /\ Len(matches) >= 2
    /\ Last(matches) = [left |-> arg[1], right |-> arg[2]]
    /\ arg[1] # arg[2]

\* ------------------------------------------------------------------ C9
\* C9: a check_match_possible step returns a boolean and changes neither
\* History nor roster nor fatigue window, for proposals inside and outside
\* the roster and with left = right; repeated with the same arguments it
\* returns the same verdict.
C9_CheckStep ==
    op' = "check" =>
        /\ ret' \in BOOLEAN
        /\ matches' = matches
        /\ players' = players
        /\ max_repeting_games_per_player' = max_repeting_games_per_player
        /\ (op = "check" /\ arg' = arg /\ allow' = allow) => ret' = ret

C9_Pure == [][C9_CheckStep]_vars

\* a verdict "possible" on a non-empty History for a proposal that names
\* a player outside the roster
C9_Witness ==
    /\ op = "check"
    /\ matches # <<>>
    /\ arg[2] \notin Range(players)
    /\ ret = TRUE

\* ----------------------------------------------------------------- C10
\* C10 as stated: with roster [0,1,2], window 2 and Rule 4 enabled, every
\* reachable History leaves at least one of the six proposals legal.
C10_NoTerminalState ==
    \E game \in MATCHES :
        check_match_possible(matches, players, Window, game, FALSE)

\* C10 amended: this holds for every reachable History of fewer than three
\* records.
C10_NoTerminalStateBeforeThree ==
    Len(matches) < 3 => C10_NoTerminalState

C10_Witness ==
    /\ op = "play"
    /\ Len(matches) = 2
    /\ C10_NoTerminalState

\* ----------------------------------------------------------------- C11
\* C11: check_same_players(p1,p2) on a record (left,right) is true if and
\* only if the unordered pair {p1,p2} equals {left,right}, p1 = p2
\* included.
C11_SamePlayersIff ==
    \A i \in 1..Len(matches), p \in Proposals :
        check_same_players(matches[i], p) = (UnorderedPair(matches[i]) = {p[1], p[2]})

\* what does hold: the equivalence for two distinct player ids
C11_SamePlayersIffDistinct ==
    \A i \in 1..Len(matches), p \in Proposals :
        p[1] # p[2] =>
            check_same_players(matches[i], p) = (UnorderedPair(matches[i]) = {p[1], p[2]})

\* ----------------------------------------------------------------- C12
\* C12: a clear_match_history step empties History and changes neither
\* roster nor fatigue window; in the state it leaves, every
\* check_match_possible verdict is the verdict of a playthrough freshly
\* constructed with the same roster and window.
C12_ClearStep ==
    op' = "clear" =>
        /\ matches' = <<>>
        /\ players' = players
        /\ max_repeting_games_per_player' = max_repeting_games_per_player
        /\ \A p \in Proposals, allow_rule_4 \in BOOLEAN :
               check_match_possible(matches', players',
                                    max_repeting_games_per_player', p, allow_rule_4)
                   = check_match_possible(<<>>, players,
                                          max_repeting_games_per_player, p, allow_rule_4)

C12_Clear == [][C12_ClearStep]_vars

C12_Witness == op = "clear" /\ matches = <<>>

\* ----------------------------------------------------------------- C14
ConsecutiveRun(ms, q, len) ==
    \E i \in 1..Len(ms) :
        /\ i + len - 1 <= Len(ms)
        /\ \A j \in i..(i + len - 1) : q \in UnorderedPair(ms[j])

\* C14: no player id, in the roster or not, appears in fatigue_window + 1
\* consecutive History records.
C14_NoRunLongerThanWindow ==
    \A q \in PlayerIds : ~ConsecutiveRun(matches, q, Window + 1)

\* what does hold: the same for the players of the roster
C14_NoRunLongerThanWindowRoster ==
    \A q \in Range(players) : ~ConsecutiveRun(matches, q, Window + 1)

\* ----------------------------------------------------------------- C15
\* C15: get_last_n_games_counts gives every player id occurring in the
\* last fatigue_window records the number of those records it is left or
\* right in, and 0 to every roster player absent from them.
C15_WindowedCounts ==
    LET counts == get_last_n_games_counts(matches, players, Window)
        window == get_last_n_matches(matches, Window)
        occurring == UNION {UnorderedPair(window[i]) : i \in 1..Len(window)}
    IN  /\ \A q \in occurring :
               q \in DOMAIN counts /\ counts[q] = Appearances(matches, Window, q)
        /\ \A q \in Range(players) \ occurring : counts[q] = 0

\* what does hold: the same on a History of valid records over the roster
C15_WindowedCountsRoster ==
    ValidHistory(matches, players) => C15_WindowedCounts

\* ----------------------------------------------------------------- C16
\* C16: with roster [0,1,2], window 2 and Rule 4 enabled on every call,
\* proposals drawn from the six ordered pairs of distinct roster players,
\* History never holds more than three records, and every reachable
\* History of three records rejects all six proposals.
C16_AtMostThree ==
    /\ Len(matches) <= 3
    /\ Len(matches) = 3 =>
           \A game \in MATCHES :
               ~check_match_possible(matches, players, Window, game, FALSE)

C16_Witness ==
    /\ op = "play"
    /\ Len(matches) = 3
    /\ Last(matches) = TtMatch_new(arg[1], arg[2])

\* ----------------------------------------------------------------- C17
LegalGames(ms) ==
    {game \in MATCHES : check_match_possible(ms, players, Window, game, TRUE)}

\* C17: with roster [0,1,2], window 2 and Rule 4 disabled on every call,
\* every reachable History of at least two records admits exactly one of
\* the six proposals, and the History repeats with period 3.
C17_ExactlyOneAndPeriodThree ==
    /\ Len(matches) >= 2 => Cardinality(LegalGames(matches)) = 1
    /\ \A i \in 1..Len(matches) :
           i + 3 <= Len(matches) => matches[i + 3] = matches[i]

C17_Witness ==
    /\ op = "play"
    /\ Len(matches) >= 5
    /\ matches[4] = matches[1]
    /\ Cardinality(LegalGames(matches)) = 1

\* ----------------------------------------------------------------- C18
\* C18: while every play_match_if_possible call has Rule 4 enabled, two
\* History records i < j with the same unordered pair and no record of
\* that pair between them have different left players and different right
\* players.
C18_SwappedSeatsOnRematch ==
    \A i, j \in 1..Len(matches) :
        (/\ i < j
         /\ UnorderedPair(matches[i]) = UnorderedPair(matches[j])
         /\ \A k \in (i + 1)..(j - 1) :
                UnorderedPair(matches[k]) # UnorderedPair(matches[i])) =>
            /\ matches[j].left # matches[i].left
            /\ matches[j].right # matches[i].right

\* the same two players met twice
C18_Witness ==
    /\ op = "play"
    /\ Len(matches) = 3
    /\ UnorderedPair(matches[1]) = UnorderedPair(matches[3])
    /\ Last(matches) = TtMatch_new(arg[1], arg[2])

\* ----------------------------------------------------------------- C19
Min(a, b) == IF a <= b THEN a ELSE b

\* C19: get_last_n_matches returns the last min(fatigue_window, len)
\* records of History, oldest of the window first, and nothing on an empty
\* History.
C19_LastNStep ==
    op' = "last_n" =>
        LET k == Min(Window, Len(matches))
        IN  /\ Len(view') = k
            /\ \A i \in 1..k : view'[i] = matches[Len(matches) - k + i]
            /\ matches' = matches

C19_LastN == [][C19_LastNStep]_vars

\* a window of two different records cut from a longer History
C19_Witness ==
    /\ op = "last_n"
    /\ Len(matches) > Window
    /\ Len(view) = 2
    /\ view[1] # view[2]
    /\ view[2] = Last(matches)

\* ----------------------------------------------------------------- C20
RECURSIVE BackToFront(_)
BackToFront(s) == IF s = <<>> THEN <<>> ELSE Append(BackToFront(Tail(s)), Head(s))

\* C20: get_matches_reversed returns all records most-recent-first, its
\* result read back to front is History, and the call leaves History as it
\* was.
C20_ReversedStep ==
    op' = "reversed" =>
        /\ Len(view') = Len(matches)
        /\ \A i \in 1..Len(matches) : view'[i] = matches[Len(matches) + 1 - i]
        /\ BackToFront(view') = matches
        /\ matches' = matches

C20_ReverseRoundTrip == [][C20_ReversedStep]_vars

\* the reverse view of a History that is not its own reverse
C20_Witness ==
    /\ op = "reversed"
    /\ Len(matches) >= 2
    /\ view # matches
    /\ view[1] = Last(matches)

\* ----------------------------------------------------------------- C13
NoEligiblePlayersScenario ==
    /\ players = <<0, 1>>
    /\ Window = 1
    /\ Len(matches) = 1

\* C13 as stated: with roster [0,1] and window 1, selectNext after one
\* match fails with NoEligiblePlayers and appends nothing.
C13_NoEligiblePlayersStep ==
    (NoEligiblePlayersScenario /\ op' = "select") =>
        error' = "NoEligiblePlayers" /\ matches' = matches

C13_InvalidMatchStep ==
    (NoEligiblePlayersScenario /\ op' = "select") =>
        error' = "InvalidMatch" /\ matches' = matches

====
